---- MODULE Spec2Model ----
(***************************************************************************)
(* Subscription manager and checkout-result screens.                       *)
(*                                                                         *)
(* The model follows the three React components of the repository:         *)
(*   SubscriptionManager  (src/unnamed/part_000)                           *)
(*   CheckoutSuccess      (src/unnamed/part_001)                           *)
(*   CheckoutCancel       (src/src/pages/CheckoutCancel.tsx, static)       *)
(* The state is the query cache entries of the two GET queries, the three  *)
(* mutation observers, the useState cells, and the element tree the last   *)
(* render returned.  Every action ends with the re-render that the state   *)
(* change causes.                                                          *)
(*                                                                         *)
(* JavaScript values: a JSON body is a record whose field kind is          *)
(* "undefined", "null" or "object"; a field the object does not carry has  *)
(* the value "undefined".                                                  *)
(***************************************************************************)
EXTENDS Integers, FiniteSets, Sequences, TLC

VARIABLES
    page,          \* the screen the router mounted
    q,             \* query cache: key -> state of the query
    mut,           \* mutation observers: name -> [status, inflight]
    isCancelling,  \* useState(false) of SubscriptionManager
    view,          \* what SubscriptionManager's last render returned
    sessionId,     \* searchParams.get('session_id') of CheckoutSuccess
    csQ,           \* the ['checkout-session', sessionId] query
    csIsLoading,   \* useState(true) of CheckoutSuccess
    csEffect,      \* TRUE when the [session, error] effect is scheduled
    csView         \* what CheckoutSuccess' last render returned

vars == <<page, q, mut, isCancelling, view, sessionId, csQ, csIsLoading, csEffect, csView>>

managerVars == <<q, mut, isCancelling, view>>

checkoutVars == <<sessionId, csQ, csIsLoading, csEffect, csView>>

----------------------------------------------------------------------------
(* Bounds and program constants *)

\* retry: 2 of every useQuery
Retry == 2

\* requests of one mutation that may be on the wire at once (caps the counter)
MaxInFlight == 2

\* ranges of the usage numbers the progress bar is rendered for
MaxUsed == 12

MaxLimit == 10

----------------------------------------------------------------------------
(* Query keys and mutations *)

KeySubscription == "subscription"

KeyUsage == "subscription-usage"

Keys == {KeySubscription, KeyUsage}

Mutations == {"sync", "cancel", "reactivate"}

----------------------------------------------------------------------------
(* JSON bodies *)

\* interface Subscription, reduced to the fields the component branches on
\* (status, stripe_subscription_id) and detail, the member an error body carries
SubBody(kind, status, sid) ==
    [kind |-> kind, status |-> status, sid |-> sid, detail |-> FALSE]

SubUndefined == SubBody("undefined", "undefined", "undefined")

SubNull == SubBody("null", "undefined", "undefined")

\* {has_subscription: false}: an object without status and without id
SubNone == SubBody("object", "undefined", "undefined")

\* the JSON body of a 5xx answer, e.g. {"detail": "..."}
SubErrBody == [SubBody("object", "undefined", "undefined") EXCEPT !.detail = TRUE]

\* bodies GET /api/subscriptions/my-subscription answers with status 2xx
SubscriptionBodies ==
    { SubNull, SubNone,
      SubBody("object", "active", "sub_123"),
      SubBody("object", "active", "undefined"),
      SubBody("object", "canceled", "sub_123"),
      SubBody("object", "past_due", "sub_123"),
      SubBody("object", "trialing", "sub_123") }

\* limit: number | string
NumLimit(n) == [type |-> "number", num |-> n, str |-> ""]

StrLimit(s) == [type |-> "string", num |-> 0, str |-> s]

Unlimited == StrLimit("unlimited")

\* interface Usage; hasUsage is the presence of the usage member
UseBody(kind, has, hasUsage, used, limit) ==
    [kind |-> kind, has_subscription |-> has, hasUsage |-> hasUsage,
     used |-> used, limit |-> limit, detail |-> FALSE]

UseUndefined == UseBody("undefined", FALSE, FALSE, 0, NumLimit(0))

UseNone == UseBody("object", FALSE, FALSE, 0, NumLimit(0))

UseErrBody == [UseNone EXCEPT !.detail = TRUE]

UseOf(used, limit) == UseBody("object", TRUE, TRUE, used, limit)

\* bodies GET /api/subscriptions/usage answers with status 2xx
UsageBodies == { UseNone, UseOf(8, NumLimit(10)) }

\* a JavaScript value in a condition: undefined and null are falsy
Truthy(d) == d.kind = "object"

----------------------------------------------------------------------------
(* HTTP *)

\* What the server and the network can do with one request.
Response(kind, body) == [kind |-> kind, body |-> body]

GetResponses(k) ==
    LET bodies == IF k = KeySubscription THEN SubscriptionBodies ELSE UsageBodies
        err    == IF k = KeySubscription THEN SubErrBody ELSE UseErrBody
        none   == IF k = KeySubscription THEN SubUndefined ELSE UseUndefined
    IN  { Response("2xx", b) : b \in bodies }
        \cup { Response("5xx-json", err),
               Response("5xx-not-json", none),
               Response("network-error", none) }

PostResponses == {"2xx", "5xx-json", "5xx-not-json", "network-error"}

\* fetch(url).then(res => res.json()): fetch rejects on a network error only,
\* res.json() rejects when the body is not JSON; the status is never read.
Rejects(kind) == kind \in {"network-error", "5xx-not-json"}

----------------------------------------------------------------------------
(* Query state *)

QueryState(status, fetchStatus, data, error, failureCount, isInvalidated) ==
    [status |-> status, fetchStatus |-> fetchStatus, data |-> data,
     error |-> error, failureCount |-> failureCount,
     isInvalidated |-> isInvalidated]

\* isLoading of useQuery: the first fetch, with nothing cached
IsLoading(s) == s.status = "pending" /\ s.fetchStatus = "fetching"

\* the query starts (or restarts) fetching
Fetching(s) ==
    [s EXCEPT !.fetchStatus = "fetching", !.failureCount = 0,
              !.status = IF s.data.kind = "undefined" THEN "pending" ELSE @,
              !.error  = IF s.data.kind = "undefined" THEN FALSE ELSE @]

\* the queryFn resolved with body
Resolved(s, body) ==
    QueryState("success", "idle", body, FALSE, 0, FALSE)

\* retry: 2 -- a failed attempt is retried while fewer than Retry failed before
\* it and the query still has an observer
ShouldRetry(s, observed) == observed /\ s.failureCount < Retry

\* the queryFn rejected
Rejected(s, observed) ==
    IF ShouldRetry(s, observed)
    THEN [s EXCEPT !.failureCount = @ + 1]
    ELSE [s EXCEPT !.failureCount = @ + 1, !.status = "error",
                   !.error = TRUE, !.fetchStatus = "idle"]

\* the entry dropped instead of marked stale (resetQueries)
InvalidatedByReset(s, observed) ==
    LET empty == [s EXCEPT !.isInvalidated = TRUE, !.status = "pending",
                           !.error = FALSE,
                           !.data = [@ EXCEPT !.kind = "undefined"]]
    IN  IF ~observed \/ IsLoading(s) THEN empty ELSE Fetching(empty)

\* queryClient.invalidateQueries({queryKey}): marks the entry stale and, when
\* an observer is mounted, refetches it (a first fetch still under way is
\* joined, a refetch under way is restarted); the cached data stays
Invalidated(s, observed) ==
    LET stale == [s EXCEPT !.isInvalidated = TRUE]
    IN  IF ~observed \/ IsLoading(s) THEN stale ELSE Fetching(stale)

----------------------------------------------------------------------------
(* SubscriptionManager: render *)

\* the element tree, reduced to what the properties below read.  width is the style
\* width of the progress bar in percent, as the fraction num / den.
View(screen, section, syncDisabled, cancel, cancelDisabled, reactivate, reactivateDisabled, usage, width, billing) ==
    [screen |-> screen, section |-> section, syncDisabled |-> syncDisabled,
     cancel |-> cancel, cancelDisabled |-> cancelDisabled,
     reactivate |-> reactivate, reactivateDisabled |-> reactivateDisabled,
     usage |-> usage, width |-> width, billing |-> billing]

NoWidth == [num |-> 0, den |-> 0]

Blank(screen) ==
    View(screen, "none", FALSE, FALSE, FALSE, FALSE, FALSE, FALSE, NoWidth, FALSE)

\* mutation.isPending
IsPending(m) == m.status = "pending"

\* a Cancel button shown for every status but 'canceled'
ShowCancelUnlessCanceled(sub) == sub.status # "canceled"

\* subscription.status === 'active' &&
ShowCancel(sub) == sub.status = "active"

\* subscription.status === 'canceled' &&
ShowReactivate(sub) == sub.status = "canceled"

\* the Cancel button disabled by the pending flag of the wrong mutation
CancelDisabledByReactivate(ic, ms) == IsPending(ms["reactivate"])

\* disabled={isCancelling || cancelMutation.isPending}
CancelDisabled(ic, ms) == ic \/ IsPending(ms["cancel"])

\* disabled={reactivateMutation.isPending}
ReactivateDisabled(ms) == IsPending(ms["reactivate"])

\* usage?.has_subscription && usage.usage &&
ShowUsage(u) == Truthy(u) /\ u.has_subscription /\ u.hasUsage

\* style width of the progress bar:
\*   limit === 'unlimited' ? '100%' : `${(used / Number(limit)) * 100}%`
ProgressWidth(used, limit) ==
    IF limit.type = "string" /\ limit.str = "unlimited"
    THEN [num |-> 100, den |-> 1]
    ELSE [num |-> used * 100, den |-> limit.num]

\* an error view for the error of either query
ShowErrorOfEither(qs) == qs[KeySubscription].error \/ qs[KeyUsage].error

\* if (subscriptionError): the usage query's error is not destructured
ShowError(qs) == qs[KeySubscription].error

\* subscription.status.charAt(0) of the billing section: a TypeError when the
\* cached object has no status
RenderThrows(sub) == Truthy(sub) /\ sub.status = "undefined"

\* the function body of SubscriptionManager from the first return on; prev is
\* the tree of the previous render: once a render threw the component is
\* unmounted and renders no more
Render(qs, ms, ic, prev) ==
    LET sub == qs[KeySubscription].data
        u   == qs[KeyUsage].data
    IN  IF prev.screen = "threw" THEN prev
        ELSE IF IsLoading(qs[KeySubscription]) \/ IsLoading(qs[KeyUsage])
        THEN Blank("loading")
        ELSE IF ShowError(qs) THEN Blank("error")
        ELSE IF RenderThrows(sub) THEN Blank("threw")
        ELSE View("main",
                  IF Truthy(sub) THEN "current-subscription"
                                 ELSE "no-active-subscription",
                  IsPending(ms["sync"]),
                  Truthy(sub) /\ ShowCancel(sub),
                  CancelDisabled(ic, ms),
                  Truthy(sub) /\ ShowReactivate(sub),
                  ReactivateDisabled(ms),
                  ShowUsage(u),
                  IF ShowUsage(u) THEN ProgressWidth(u.used, u.limit) ELSE NoWidth,
                  Truthy(sub))

\* the component is mounted: its observers are subscribed
Mounted == view.screen # "threw"

----------------------------------------------------------------------------
(* SubscriptionManager: mutations and handlers *)

Mutation(status, inflight) == [status |-> status, inflight |-> inflight]

\* mutation.mutate(): the observer follows the request just issued
Mutate(m) == Mutation("pending", m.inflight + 1)

\* a request of the mutation came back; the observer's status follows it
\* unless a later request of the same observer is still on the wire
Settled(m, status) ==
    Mutation(IF m.inflight = 1 THEN status ELSE m.status, m.inflight - 1)

\* reactivate forgetting the usage key
OnSuccessKeysReactivateOne(name) ==
    IF name = "reactivate" THEN {KeySubscription} ELSE {KeySubscription, KeyUsage}

\* the query keys the onSuccess callback of a mutation invalidates
OnSuccessKeys(name) ==
    CASE name = "sync"       -> {KeySubscription, KeyUsage}
      [] name = "cancel"     -> {KeySubscription, KeyUsage}
      [] name = "reactivate" -> {KeySubscription, KeyUsage}

\* isCancelling after the onSuccess callback: only cancel calls
\* setIsCancelling(false)
OnSuccessIsCancelling(name, ic) == IF name = "cancel" THEN FALSE ELSE ic

\* isCancelling after a rejected mutation: no mutation has an onError callback
OnErrorIsCancelling(name, ic) == ic

\* the cache after the onSuccess callback of mutation name
OnSuccessCache(name, qs, observed) ==
    [k \in Keys |->
        IF k \in OnSuccessKeys(name) THEN Invalidated(qs[k], observed) ELSE qs[k]]

\* if (subscription?.stripe_subscription_id)
HasSubscriptionId(sub) == Truthy(sub) /\ sub.sid \notin {"undefined", ""}

\* one attempt of a query's queryFn comes back
FetchSettle(k) ==
    /\ page = "manager"
    /\ q[k].fetchStatus = "fetching"
    /\ \E r \in GetResponses(k) :
          q' = [q EXCEPT ![k] = IF Rejects(r.kind)
                                THEN Rejected(q[k], Mounted)
                                ELSE Resolved(q[k], r.body)]
    /\ view' = Render(q', mut, isCancelling, view)
    /\ UNCHANGED <<page, mut, isCancelling>>
    /\ UNCHANGED checkoutVars

\* click on "Sync from Stripe"
HandleSync ==
    /\ page = "manager"
    /\ view.screen = "main" /\ ~view.syncDisabled
    /\ mut["sync"].inflight < MaxInFlight
    /\ mut' = [mut EXCEPT !["sync"] = Mutate(@)]
    /\ view' = Render(q, mut', isCancelling, view)
    /\ UNCHANGED <<page, q, isCancelling>>
    /\ UNCHANGED checkoutVars

\* click on "Cancel Subscription"
HandleCancel ==
    /\ page = "manager"
    /\ view.screen = "main" /\ view.cancel /\ ~view.cancelDisabled
    /\ mut["cancel"].inflight < MaxInFlight
    /\ IF HasSubscriptionId(q[KeySubscription].data)
       THEN /\ isCancelling' = TRUE
            /\ mut' = [mut EXCEPT !["cancel"] = Mutate(@)]
       ELSE UNCHANGED <<isCancelling, mut>>
    /\ view' = Render(q, mut', isCancelling', view)
    /\ UNCHANGED <<page, q>>
    /\ UNCHANGED checkoutVars

\* click on "Reactivate Subscription"
HandleReactivate ==
    /\ page = "manager"
    /\ view.screen = "main" /\ view.reactivate /\ ~view.reactivateDisabled
    /\ mut["reactivate"].inflight < MaxInFlight
    /\ IF HasSubscriptionId(q[KeySubscription].data)
       THEN mut' = [mut EXCEPT !["reactivate"] = Mutate(@)]
       ELSE UNCHANGED mut
    /\ view' = Render(q, mut', isCancelling, view)
    /\ UNCHANGED <<page, q, isCancelling>>
    /\ UNCHANGED checkoutVars

\* a request of mutation name comes back: the mutationFn resolves and
\* onSuccess runs, or it rejects (mutations are not retried)
MutationSettle(name) ==
    /\ page = "manager"
    /\ mut[name].inflight > 0
    /\ \E r \in PostResponses :
          IF Rejects(r)
          THEN /\ mut' = [mut EXCEPT ![name] = Settled(@, "error")]
               /\ isCancelling' = OnErrorIsCancelling(name, isCancelling)
               /\ q' = q
          ELSE /\ mut' = [mut EXCEPT ![name] = Settled(@, "success")]
               /\ isCancelling' = OnSuccessIsCancelling(name, isCancelling)
               /\ q' = OnSuccessCache(name, q, Mounted)
    /\ view' = Render(q', mut', isCancelling', view)
    /\ UNCHANGED page
    /\ UNCHANGED checkoutVars

----------------------------------------------------------------------------
(* CheckoutSuccess *)

\* searchParams.get('session_id'): "null" stands for null (no parameter)
SessionIds == {"null", "", "cs_test_1"}

\* enabled: !!sessionId
Enabled(id) == id \notin {"null", ""}

CsQuery(status, fetchStatus, session, error, failureCount) ==
    [status |-> status, fetchStatus |-> fetchStatus, session |-> session,
     error |-> error, failureCount |-> failureCount]

\* the query at the first render
CsInitialQuery(id) ==
    CsQuery("pending", IF Enabled(id) THEN "fetching" ELSE "idle", FALSE, FALSE, 0)

\* what checkoutAPI.getSession(sessionId) can come back with
GetSessionOutcomes == {"resolve", "reject"}

\* if (isLoading) ... if (error || !session) ... else the success screen
CsRender(loading, cq) ==
    IF loading THEN "loading"
    ELSE IF cq.error \/ ~cq.session THEN "failed"
    ELSE "success"

\* the body of the effect: if (session || error) setIsLoading(false)
EffectIsLoading(loading, cq) ==
    IF cq.session \/ cq.error THEN FALSE ELSE loading

\* one attempt of getSession comes back
CsFetchSettle ==
    /\ page = "success"
    /\ csQ.fetchStatus = "fetching"
    /\ \E o \in GetSessionOutcomes :
          csQ' = IF o = "resolve"
                 THEN CsQuery("success", "idle", TRUE, FALSE, 0)
                 ELSE IF csQ.failureCount < Retry
                 THEN [csQ EXCEPT !.failureCount = @ + 1]
                 ELSE [csQ EXCEPT !.failureCount = @ + 1, !.status = "error",
                                  !.error = TRUE, !.fetchStatus = "idle"]
    /\ csEffect' = (csEffect \/ csQ'.session # csQ.session \/ csQ'.error # csQ.error)
    /\ csView' = CsRender(csIsLoading, csQ')
    /\ UNCHANGED <<page, sessionId, csIsLoading>>
    /\ UNCHANGED managerVars

\* useEffect(() => {...}, [session, error]) runs after the render that
\* changed a dependency (and after the first render)
CsRunEffect ==
    /\ page = "success"
    /\ csEffect
    /\ csEffect' = FALSE
    /\ csIsLoading' = EffectIsLoading(csIsLoading, csQ)
    /\ csView' = CsRender(csIsLoading', csQ)
    /\ UNCHANGED <<page, sessionId, csQ>>
    /\ UNCHANGED managerVars

----------------------------------------------------------------------------
(* The application *)

Pages == {"manager", "success", "cancel"}

\* the state of SubscriptionManager at its first render
ManagerInit ==
    /\ q = [k \in Keys |->
              QueryState("pending", "fetching",
                         IF k = KeySubscription THEN SubUndefined ELSE UseUndefined,
                         FALSE, 0, FALSE)]
    /\ mut = [m \in Mutations |-> Mutation("idle", 0)]
    /\ isCancelling = FALSE
    /\ view = Blank("loading")

\* the state of CheckoutSuccess at its first render
CheckoutInit(ids) ==
    /\ sessionId \in ids
    /\ csQ = CsInitialQuery(sessionId)
    /\ csIsLoading = TRUE
    /\ csEffect = TRUE
    /\ csView = CsRender(csIsLoading, csQ)

Init ==
    /\ page \in Pages
    /\ ManagerInit
    /\ CheckoutInit(IF page = "success" THEN SessionIds ELSE {"null"})

Next ==
    \/ \E k \in Keys : FetchSettle(k)
    \/ HandleSync
    \/ HandleCancel
    \/ HandleReactivate
    \/ \E name \in Mutations : MutationSettle(name)
    \/ CsFetchSettle
    \/ CsRunEffect

Spec == Init /\ [][Next]_vars

----------------------------------------------------------------------------
(* The progress bar, rendered for every usage record *)

Limits == {Unlimited} \cup { NumLimit(n) : n \in 1..MaxLimit }

\* both queries have answered, the usage query with any (used, limit); the
\* render of that state is still to come
InitWidth ==
    /\ page = "manager"
    /\ \E used \in 0..MaxUsed, limit \in Limits :
          q = [k \in Keys |->
                 IF k = KeySubscription
                 THEN QueryState("success", "idle",
                                 SubBody("object", "active", "sub_123"),
                                 FALSE, 0, FALSE)
                 ELSE QueryState("success", "idle", UseOf(used, limit),
                                 FALSE, 0, FALSE)]
    /\ mut = [m \in Mutations |-> Mutation("idle", 0)]
    /\ isCancelling = FALSE
    /\ view = Blank("loading")
    /\ CheckoutInit({"null"})

\* the render a state change causes
Rerender ==
    /\ page = "manager"
    /\ view # Render(q, mut, isCancelling, view)
    /\ view' = Render(q, mut, isCancelling, view)
    /\ UNCHANGED <<page, q, mut, isCancelling>>
    /\ UNCHANGED checkoutVars

NextWidth == Rerender

SpecWidth == InitWidth /\ [][NextWidth]_vars

----------------------------------------------------------------------------
(* Properties *)

Manager == page = "manager"

NeitherLoading ==
    \A k \in Keys : ~(q[k].status = "pending" /\ q[k].fetchStatus = "fetching")

BothSettled == \A k \in Keys : q[k].fetchStatus = "idle"

Min(a, b) == IF a < b THEN a ELSE b

\* C1: CheckoutSuccess mounted without a session id (the query is disabled)
\* ends in the failure view: once its mount effect has run and nothing more
\* is scheduled, it does not show the loading view.
C1_NoSessionEndsInFailure ==
    (page = "success" /\ ~Enabled(sessionId) /\ ~csEffect) => csView = "failed"

\* the step in which mutation name succeeds
Succeeds(name) == mut[name].status = "pending" /\ mut'[name].status = "success"

\* the step in which a fetch of key k begins
FetchBegins(k) ==
    \/ q[k].fetchStatus = "idle" /\ q'[k].fetchStatus = "fetching"
    \/ q[k].fetchStatus = "fetching" /\ q'[k].fetchStatus = "fetching"
         /\ q'[k].failureCount < q[k].failureCount

\* C2: in the step in which sync, cancel or reactivate succeeds both keys
\* are stale; a key becomes stale only in a step in which a mutation
\* succeeds; and a fetch of a key begins only in a state where the key has
\* been marked stale.
C2_InvalidateOnSuccess ==
    [][ /\ \A name \in Mutations :
              Succeeds(name) => \A k \in Keys : q'[k].isInvalidated
        /\ \A k \in Keys :
              (~q[k].isInvalidated /\ q'[k].isInvalidated)
                  => \E name \in Mutations : Succeeds(name)
        /\ \A k \in Keys : FetchBegins(k) => q'[k].isInvalidated ]_vars

\* all three mutations have succeeded and both keys are stale and refetching
C2_Witness ==
    /\ \A name \in Mutations : mut[name].status = "success"
    /\ \A k \in Keys : q[k].isInvalidated /\ q[k].fetchStatus = "fetching"

\* C3: once a cancel mutation has completed, with success or with an error,
\* the flag that disables the Cancel button is false again.
C3_CancelFlagCleared ==
    (Manager /\ mut["cancel"].status \in {"success", "error"})
        => /\ ~CancelDisabled(isCancelling, mut)
           /\ (view.cancel => ~view.cancelDisabled)

\* the last answer to the subscription fetch was a failure: a rejected
\* request or a 5xx answer (whose body is what the cache then holds)
SubscriptionFetchFailed ==
    q[KeySubscription].error \/ q[KeySubscription].data.detail

\* C4: a failing subscription fetch is attempted at most Retry + 1 times;
\* when both fetches have settled the manager does not show the loading
\* view, and shows the error view if the subscription fetch failed.
C4_FetchFailureShowsError ==
    Manager =>
        /\ q[KeySubscription].failureCount <= Retry + 1
        /\ BothSettled => view.screen # "loading"
        /\ (BothSettled /\ SubscriptionFetchFailed) => view.screen = "error"

\* C5: when the subscription fetch answered that there is no subscription
\* (null or {has_subscription: false}) the manager shows the "No Active
\* Subscription" call to action and neither Cancel nor Reactivate.
C5_AbsentShowsCallToAction ==
    (Manager /\ BothSettled /\ ~q[KeySubscription].error
             /\ q[KeySubscription].data \in {SubNull, SubNone})
        => /\ view.screen = "main"
           /\ view.section = "no-active-subscription"
           /\ ~view.cancel /\ ~view.reactivate

\* C6: the width of the progress bar is a fraction in [0, 1] of the track:
\* the whole track for the limit "unlimited", else used / limit clamped.
C6_ProgressFractionClamped ==
    (Manager /\ view.usage) =>
        LET w == view.width
            u == q[KeyUsage].data
        IN  /\ 0 <= w.num /\ w.num <= 100 * w.den
            /\ u.limit = Unlimited => w.num = 100 * w.den
            /\ u.limit # Unlimited =>
                  w.num * u.limit.num = 100 * Min(u.used, u.limit.num) * w.den

\* C7: whenever the manager shows a subscription, Cancel is shown exactly
\* for status active, Reactivate exactly for status canceled, and never both.
C7_ActionsFollowStatus ==
    (Manager /\ view.screen = "main" /\ view.section = "current-subscription")
        => /\ view.cancel <=> q[KeySubscription].data.status = "active"
           /\ view.reactivate <=> q[KeySubscription].data.status = "canceled"
           /\ ~(view.cancel /\ view.reactivate)

\* an active subscription is shown with Cancel and without Reactivate
C7_Witness ==
    /\ Manager /\ view.screen = "main"
    /\ q[KeySubscription].data.status = "active"
    /\ view.cancel /\ ~view.reactivate

C9_OneCancelInFlight ==
    /\ [](Manager => /\ mut["cancel"].inflight <= 1
                     /\ (mut["cancel"].inflight = 1 /\ view.cancel)
                           => view.cancelDisabled)
    /\ [][ /\ mut'["cancel"].inflight > mut["cancel"].inflight
              => /\ HasSubscriptionId(q[KeySubscription].data)
                 /\ mut["cancel"].inflight = 0
           /\ (isCancelling' /\ ~isCancelling)
              => mut'["cancel"].inflight > mut["cancel"].inflight ]_vars

\* a cancel request is on the wire and the shown Cancel button is disabled
C9_Witness ==
    /\ Manager /\ mut["cancel"].inflight = 1
    /\ view.cancel /\ view.cancelDisabled /\ isCancelling

\* the usage fetch failed after its retries while the subscription fetch
\* succeeded with a subscription record
UsageFailedAlone ==
    /\ Manager /\ Mounted /\ BothSettled
    /\ q[KeyUsage].status = "error"
    /\ q[KeySubscription].status = "success"
    /\ q[KeySubscription].data.status # "undefined"

\* C10 as stated: loading view while either query is loading, error view
\* exactly when neither is loading and the subscription query has an error,
\* and after a failed usage fetch the subscription section without the usage
\* section.
C10_UsageFailureHidesUsage ==
    (Manager /\ Mounted) =>
        /\ view.screen = "loading" <=> ~NeitherLoading
        /\ view.screen = "error" <=> (NeitherLoading /\ q[KeySubscription].error)
        /\ UsageFailedAlone
              => /\ view.screen = "main"
                 /\ view.section = "current-subscription"
                 /\ ~view.usage

\* C10 amended: as above, but after a failed usage fetch the usage section
\* is absent when no usage record is cached and otherwise rendered from the
\* record the last successful usage fetch cached.
C10_UsageFailureKeepsCachedUsage ==
    (Manager /\ Mounted) =>
        /\ view.screen = "loading" <=> ~NeitherLoading
        /\ view.screen = "error" <=> (NeitherLoading /\ q[KeySubscription].error)
        /\ UsageFailedAlone
              => /\ view.screen = "main"
                 /\ view.section = "current-subscription"
                 /\ q[KeyUsage].data.kind = "undefined" => ~view.usage
                 /\ view.usage <=> ShowUsage(q[KeyUsage].data)

\* the first usage fetch failed for good beside a cached subscription
C10_Witness ==
    /\ UsageFailedAlone
    /\ q[KeyUsage].data.kind = "undefined"
    /\ view.screen = "main" /\ ~view.usage

====
